---- MODULE Spec2Model ----
(***************************************************************************)
(* ModGuard (Odeneho-Calculus/PMCR): the dependency graph, the collision   *)
(* detector with its severity classifier, the fix planner, the fix         *)
(* executors, the module extractor and the scan command.                   *)
(*                                                                         *)
(* Python strings on which the code only tests equality are TLA+ strings.  *)
(* Python strings the code searches, sorts or concatenates (package names, *)
(* module names, file paths, import statements, usage sites) are sequences *)
(* of one-character strings, so that `in`, startswith, sorted and the      *)
(* f-strings are computed as Python computes them.                         *)
(***************************************************************************)
EXTENDS Integers, Sequences, FiniteSets, TLC

VARIABLES
    nodes,          \* DependencyGraph.nodes: package name -> node
    gad,            \* the running / last call of a graph method
    inventory,      \* modules_by_package handed to the detector
    files,          \* project_files: the .py files in the order os.walk yields them
    file_i,         \* how many of them analyze_project_imports has processed
    conflicts,      \* ConflictReport.conflicts (ordered dict)
    severities,     \* DetailedConflictReport.severities
    import_paths,   \* DetailedConflictReport.import_paths
    observed,       \* history: the classifications set_severity was called with
    scan_pc,        \* position in scan_project
    plans,          \* the FixPlan.actions of each suggest_fixes call so far
    fix,            \* the running / last call of FixEngine.apply_fixes
    fs,             \* the project directory the fix executors write to
    ext,            \* the running / last call of extract_modules_from_dependency_graph
    cli,            \* the running / last call of scan_command
    suggest         \* the type of the report and the last call of suggest_fixes on it

vars == <<nodes, gad, inventory, files, file_i, conflicts, severities, import_paths,
          observed, scan_pc, plans, fix, fs, ext, cli, suggest>>

execVars == <<fix, fs, ext, cli, suggest>>

scanVars == <<inventory, files, file_i, conflicts, severities, import_paths,
              observed, scan_pc, plans, execVars>>

(***************************************************************************)
(* Bounds of the model.                                                    *)
(***************************************************************************)
MaxEdges == 3
MaxRecords == 4
MaxScanRecords == 2
MaxPlanRecords == 3
MaxSites == 3
MaxRuns == 2
MaxActions == 2

(***************************************************************************)
(* Python str operations.                                                  *)
(***************************************************************************)
\* The characters used, in code point order (str comparison is by code point).
Chars == <<" ", ".", "/", ":", "a", "b", "c", "f", "i", "m", "o", "p",
           "r", "s", "t", "u", "v", "x", "y">>

CharRank(c) == CHOOSE i \in 1..Len(Chars) : Chars[i] = c

\* s < t for str
StrLess(s, t) ==
    \E i \in 1..Len(t) :
        /\ i <= Len(s) + 1
        /\ \A j \in 1..(i - 1) : s[j] = t[j]
        /\ \/ i = Len(s) + 1
           \/ CharRank(s[i]) < CharRank(t[i])

\* s.startswith(p)
StartsWith(s, p) == Len(p) <= Len(s) /\ SubSeq(s, 1, Len(p)) = p

\* p in s
Contains(s, p) ==
    \E i \in 0..(Len(s) - Len(p)) : SubSeq(s, i + 1, i + Len(p)) = p

\* s.split('.')[0]
RECURSIVE TopLevel(_)
TopLevel(s) ==
    IF s = <<>> \/ Head(s) = "." THEN <<>>
    ELSE <<Head(s)>> \o TopLevel(Tail(s))

\* sorted(xs) for a list of str: a stable insertion sort
RECURSIVE InsertSorted(_, _)
InsertSorted(x, ys) ==
    IF ys = <<>> THEN <<x>>
    ELSE IF StrLess(x, Head(ys)) THEN <<x>> \o ys
    ELSE <<Head(ys)>> \o InsertSorted(x, Tail(ys))

RECURSIVE SortedStr(_)
SortedStr(xs) ==
    IF xs = <<>> THEN <<>>
    ELSE InsertSorted(xs[Len(xs)], SortedStr(SubSeq(xs, 1, Len(xs) - 1)))

Range(s) == {s[i] : i \in 1..Len(s)}

\* The sequences over S of length at most n
SeqUpTo(S, n) == UNION {[1..k -> S] : k \in 0..n}

\* The sequences that list each element of the finite set S once
Orderings(S) ==
    {q \in [1..Cardinality(S) -> S] : \A i, j \in 1..Cardinality(S) : q[i] = q[j] => i = j}

(***************************************************************************)
(* Names.                                                                  *)
(***************************************************************************)
PkgA == <<"a">>
PkgAB == <<"a", "b">>
PkgC == <<"c">>
PkgNames == {PkgA, PkgAB, PkgC}

Versions == {"1.0.0", "2.0.0"}

ModU == <<"u">>
ModV == <<"v">>
ModNames == {ModU, ModV}

(***************************************************************************)
(* The dependency graph (dependency/graph.py).                             *)
(***************************************************************************)
\* @dataclass PackageInfo: eq without frozen, so __hash__ is None and a
\* PackageInfo cannot be a set element: set.add(PackageInfo) raises TypeError.
PackageInfoHashable == FALSE

PackageInfo(n, v) == [name |-> n, version |-> v]

GadIdle == [pc |-> "idle", op |-> "none", start |-> <<>>, to_visit |-> <<>>,
            visited |-> {}, result |-> {}, deps |-> <<>>, expanded |-> <<>>,
            arg |-> <<>>]

\* FixEngine.apply_fixes before any call: FixResult.applied_fixes is the list
\* of AppliedFix; calls is the history of the executors invoked and wrote
\* the indices of the actions whose iteration changed the project directory
FixIdle == [pc |-> "idle", plan |-> <<>>, i |-> 0, dry_run |-> FALSE,
            applied_fixes |-> <<>>, calls |-> <<>>, wrote |-> {}]

\* A project directory with nothing in it that the executors look at
FsEmpty == [shim_dir |-> "absent", shims |-> <<>>, shim_locked |-> FALSE,
            shims_init |-> [exists |-> FALSE, lines |-> <<>>],
            pkg_init |-> "absent",
            requirements |-> [exists |-> FALSE, lines |-> <<>>],
            pyproject |-> [kind |-> "absent", lines |-> <<>>],
            manifest_locked |-> FALSE]

ExtIdle == [pc |-> "idle", packages |-> <<>>, i |-> 0, result |-> <<>>, env |-> <<>>]

CliIdle == [pc |-> "idle", fix |-> FALSE, dry_run |-> FALSE, exit |-> -1]

\* suggest_fixes before any call, on a report of the type scan_project
\* returns (conflict.py:72-76)
SuggestIdle == [pc |-> "idle", report |-> "DetailedConflictReport"]

ExecIdle ==
    /\ fix = FixIdle
    /\ fs = FsEmpty
    /\ ext = ExtIdle
    /\ cli = CliIdle
    /\ suggest = SuggestIdle

EdgeCount == LET RECURSIVE Sum(_)
                 Sum(S) == IF S = {} THEN 0
                           ELSE LET n == CHOOSE n \in S : TRUE
                                IN Len(nodes[n].dependencies) + Sum(S \ {n})
             IN Sum(DOMAIN nodes)

\* A faulty variant of AddNodeTo: the name is not looked up first, so a
\* second insertion replaces the node
AddNodeToOverwrite(ns, pkg) ==
    [n \in DOMAIN ns \cup {pkg.name} |->
        IF n = pkg.name THEN [package |-> pkg, dependencies |-> <<>>] ELSE ns[n]]

\* DependencyGraph.add_node: the node map after the call
AddNodeTo(ns, pkg) ==
    IF pkg.name \in DOMAIN ns THEN ns
    ELSE [n \in DOMAIN ns \cup {pkg.name} |->
            IF n = pkg.name THEN [package |-> pkg, dependencies |-> <<>>] ELSE ns[n]]

\* A faulty variant of NodeAddDependency: the membership test is missing
NodeAddDependencyAlways(node, childName) ==
    [node EXCEPT !.dependencies = Append(@, childName)]

\* DependencyNode.add_dependency: nodes are equal when their names are
NodeAddDependency(node, childName) ==
    IF childName \in Range(node.dependencies) THEN node
    ELSE [node EXCEPT !.dependencies = Append(@, childName)]

\* DependencyGraph.add_dependency: the node map after the call
AddDependencyTo(ns, parent, child) ==
    LET n1 == AddNodeTo(ns, parent)
        n2 == AddNodeTo(n1, child)
    IN [n2 EXCEPT ![parent.name] = NodeAddDependency(@, child.name)]

add_node(pkg) ==
    /\ gad.pc # "loop"
    /\ nodes' = AddNodeTo(nodes, pkg)
    /\ gad' = [GadIdle EXCEPT !.pc = "returned", !.op = "add_node", !.arg = <<pkg>>]
    /\ UNCHANGED scanVars

add_dependency(parent, child) ==
    /\ gad.pc # "loop"
    /\ EdgeCount < MaxEdges
    /\ nodes' = AddDependencyTo(nodes, parent, child)
    /\ gad' = [GadIdle EXCEPT !.pc = "returned", !.op = "add_dependency",
                               !.arg = <<parent, child>>]
    /\ UNCHANGED scanVars

\* DependencyGraph.get_dependencies: the whole call
get_dependencies(name) ==
    /\ gad.pc # "loop"
    /\ gad' = [GadIdle EXCEPT
                 !.pc = "returned", !.op = "get_dependencies", !.start = name,
                 !.deps = IF name \notin DOMAIN nodes THEN <<>>
                          ELSE [i \in 1..Len(nodes[name].dependencies) |->
                                  nodes[nodes[name].dependencies[i]].package]]
    /\ UNCHANGED <<nodes, scanVars>>

\* A faulty variant of get_all_dependencies: the test of line 67 is missing,
\* so self.nodes[package_name] raises KeyError for an unknown name
get_all_dependencies_unguarded(name) ==
    /\ gad.pc # "loop"
    /\ gad' = IF name \notin DOMAIN nodes
              THEN [GadIdle EXCEPT !.pc = "raised", !.op = "get_all_dependencies",
                                   !.start = name]
              ELSE [GadIdle EXCEPT !.pc = "loop", !.op = "get_all_dependencies",
                                   !.start = name, !.to_visit = <<name>>]
    /\ UNCHANGED <<nodes, scanVars>>

\* DependencyGraph.get_all_dependencies, up to the while loop
get_all_dependencies(name) ==
    /\ gad.pc # "loop"
    /\ gad' = IF name \notin DOMAIN nodes
              THEN [GadIdle EXCEPT !.pc = "returned", !.op = "get_all_dependencies",
                                   !.start = name]
              ELSE [GadIdle EXCEPT !.pc = "loop", !.op = "get_all_dependencies",
                                   !.start = name, !.to_visit = <<name>>]
    /\ UNCHANGED <<nodes, scanVars>>

\* A faulty variant of PopRest: the node is read but not popped
PopRestPeek(tv) == tv

\* to_visit.pop(): the list without its last element
PopRest(tv) == SubSeq(tv, 1, Len(tv) - 1)

\* `if node in visited: continue`
SkipVisited(node, visited) == node \in visited

\* The for loop over node.dependencies, when result.add succeeds:
\* <<result, to_visit>> after it
RECURSIVE ForDeps(_, _, _, _)
ForDeps(deps, result, tv, visited) ==
    IF deps = <<>> THEN <<result, tv>>
    ELSE ForDeps(Tail(deps),
                 result \cup {nodes[Head(deps)].package},
                 IF Head(deps) \notin visited THEN Append(tv, Head(deps)) ELSE tv,
                 visited)

\* One iteration of `while to_visit`
gad_iteration ==
    /\ gad.pc = "loop"
    /\ UNCHANGED <<nodes, scanVars>>
    /\ IF gad.to_visit = <<>>
       THEN gad' = [gad EXCEPT !.pc = "returned"]
       ELSE LET node == gad.to_visit[Len(gad.to_visit)]
                rest == PopRest(gad.to_visit)
            IN IF SkipVisited(node, gad.visited)
               THEN gad' = [gad EXCEPT !.to_visit = rest]
               ELSE LET visited == gad.visited \cup {node}
                        deps == nodes[node].dependencies
                        after == ForDeps(deps, gad.result, rest, visited)
                    IN IF deps # <<>> /\ ~PackageInfoHashable
                       THEN \* result.add(dep.package) raises TypeError
                            gad' = [gad EXCEPT !.pc = "raised", !.to_visit = rest,
                                               !.visited = visited,
                                               !.expanded = Append(@, node)]
                       ELSE gad' = [gad EXCEPT !.to_visit = after[2],
                                               !.visited = visited,
                                               !.result = after[1],
                                               !.expanded = Append(@, node)]

ScanIdle ==
    /\ inventory = <<>>
    /\ files = <<>>
    /\ file_i = 0
    /\ conflicts = <<>>
    /\ severities = <<>>
    /\ import_paths = <<>>
    /\ observed = <<>>
    /\ scan_pc = "idle"
    /\ plans = <<>>
    /\ ExecIdle

GraphInit ==
    /\ nodes = <<>>
    /\ gad = GadIdle
    /\ ScanIdle

GraphNext ==
    \/ \E n \in PkgNames, v \in Versions : add_node(PackageInfo(n, v))
    \/ \E p, c \in PkgNames, v, w \in Versions :
          add_dependency(PackageInfo(p, v), PackageInfo(c, w))
    \/ \E n \in PkgNames : get_dependencies(n)
    \/ \E n \in PkgNames : get_all_dependencies(n)
    \/ gad_iteration

SpecGraph == GraphInit /\ [][GraphNext]_vars

\* get_all_dependencies is a synchronous call: once entered, its loop keeps
\* running until it returns or raises
SpecGraphFair == SpecGraph /\ WF_vars(gad_iteration)

\* The names reachable from n by one or more edges
RECURSIVE Closure(_)
Closure(S) ==
    LET next == S \cup UNION {Range(nodes[m].dependencies) : m \in S}
    IN IF next = S THEN S ELSE Closure(next)

ReachableFrom(n) ==
    IF n \notin DOMAIN nodes THEN {}
    ELSE Closure(Range(nodes[n].dependencies))

GadFinished ==
    gad.op = "get_all_dependencies" /\ gad.pc \in {"returned", "raised"}

\* C9: every finished call get_all_dependencies(x) has returned a set, and
\* that set does not hold package x itself, whatever the graph (cycles
\* through x and self-edges included).
C9_ResultExcludesStart ==
    GadFinished =>
        /\ gad.pc = "returned"
        /\ \A p \in gad.result : p.name # gad.start

C11_ExactClosure ==
    GadFinished =>
        /\ gad.pc = "returned"
        /\ {p.name : p \in gad.result} \ {gad.start} = ReachableFrom(gad.start) \ {gad.start}

\* The dependency names of the node called n, <<>> when there is none
DepsOf(ns, n) == IF n \in DOMAIN ns THEN ns[n].dependencies ELSE <<>>

IsPrefix(s, t) == Len(s) <= Len(t) /\ SubSeq(t, 1, Len(s)) = s

\* C12: the graph holds one node per inserted package name, under that
\* name; no call changes the package (hence the version) of a node that
\* exists, and add_node of a name that is present changes nothing.
C12_NodeIdentity ==
    [][/\ \A n \in DOMAIN nodes' : nodes'[n].package.name = n
       /\ \A n \in DOMAIN nodes : n \in DOMAIN nodes' /\ nodes'[n].package = nodes[n].package
       /\ gad'.op = "add_node" =>
             LET pkg == gad'.arg[1]
             IN /\ DOMAIN nodes' = DOMAIN nodes \cup {pkg.name}
                /\ pkg.name \in DOMAIN nodes => nodes' = nodes
                /\ pkg.name \notin DOMAIN nodes => nodes'[pkg.name].package = pkg
       /\ gad'.op = "add_dependency" =>
             DOMAIN nodes' = DOMAIN nodes \cup {gad'.arg[1].name, gad'.arg[2].name}
       /\ gad'.op \notin {"add_node", "add_dependency"} => DOMAIN nodes' = DOMAIN nodes
      ]_vars

\* add_node was called for a name the graph holds with another version
C12_Witness ==
    /\ gad.op = "add_node"
    /\ gad.arg[1].name \in DOMAIN nodes
    /\ nodes[gad.arg[1].name].package.version # gad.arg[1].version
    /\ Cardinality(DOMAIN nodes) >= 2

\* C13: add_dependency(parent, child) leaves both endpoints in the graph and
\* child in parent's edge list, appended when it was not there and the list
\* untouched when it was; no edge list ever holds a name twice, and every
\* call keeps the edges a node had, in their order.
C13_EdgesDedupOrdered ==
    [][/\ \A n \in DOMAIN nodes' : \A i, j \in 1..Len(nodes'[n].dependencies) :
             nodes'[n].dependencies[i] = nodes'[n].dependencies[j] => i = j
       /\ \A n \in DOMAIN nodes : IsPrefix(nodes[n].dependencies, DepsOf(nodes', n))
       /\ gad'.op = "add_dependency" =>
             LET p == gad'.arg[1].name
                 c == gad'.arg[2].name
                 old == DepsOf(nodes, p)
             IN /\ {p, c} \subseteq DOMAIN nodes'
                /\ nodes'[p].dependencies = IF c \in Range(old) THEN old ELSE Append(old, c)
                /\ \A n \in DOMAIN nodes' \ {p} : nodes'[n].dependencies = DepsOf(nodes, n)
      ]_vars

\* add_dependency was called for an edge the parent already had, in front of
\* a later one
C13_Witness ==
    /\ gad.op = "add_dependency"
    /\ Len(nodes[gad.arg[1].name].dependencies) >= 2
    /\ nodes[gad.arg[1].name].dependencies[1] = gad.arg[2].name

\* C14: get_dependencies and get_all_dependencies of a name that is not in
\* the graph return (an empty list, an empty set) without raising, and leave
\* the graph as it was.
C14_UnknownNameEmpty ==
    [][(/\ gad.pc # "loop"
        /\ gad'.op \in {"get_dependencies", "get_all_dependencies"}
        /\ gad'.start \notin DOMAIN nodes) =>
           /\ gad'.pc = "returned"
           /\ gad'.result = {}
           /\ gad'.deps = <<>>
           /\ nodes' = nodes
      ]_vars

\* get_all_dependencies of an unknown name has returned, on a graph with edges
C14_Witness ==
    /\ gad.op = "get_all_dependencies"
    /\ gad.pc = "returned"
    /\ gad.start \notin DOMAIN nodes
    /\ EdgeCount >= 1

(***************************************************************************)
(* The collision detector (detector/collision_detector.py) and the report  *)
(* (models/conflict.py).  An ordered dict is the sequence of its items.    *)
(***************************************************************************)
VersionOf(n) == IF n = PkgAB THEN "2.0.0" ELSE "1.0.0"

\* ModuleInfo; path is the record's place in its package's list
ModuleInfo(m, i, n) == [name |-> m, path |-> i, package |-> PackageInfo(n, VersionOf(n))]

\* The dict's keys, in order
Keys(d) == [i \in 1..Len(d) |-> d[i].name]

HasKey(d, k) == \E i \in 1..Len(d) : d[i].name = k

\* d[k]
Get(d, k) == d[CHOOSE i \in 1..Len(d) : d[i].name = k].modules

\* lines 30-34: every record of every package, in iteration order
RECURSIVE AllModules(_)
AllModules(inv) ==
    IF inv = <<>> THEN <<>> ELSE Head(inv).modules \o AllModules(Tail(inv))

\* The order in which keys enter a dict filled from the list xs
RECURSIVE FirstSeen(_)
FirstSeen(xs) ==
    IF xs = <<>> THEN <<>>
    ELSE LET init == FirstSeen(SubSeq(xs, 1, Len(xs) - 1))
             x == xs[Len(xs)]
         IN IF x \in Range(init) THEN init ELSE Append(init, x)

\* module_map (lines 27-34)
ModuleMap(inv) ==
    LET all == AllModules(inv)
        names == FirstSeen([i \in 1..Len(all) |-> all[i].name])
        Named(m) == LET Is(r) == r.name = m IN SelectSeq(all, Is)
    IN [i \in 1..Len(names) |-> [name |-> names[i], modules |-> Named(names[i])]]

\* A faulty variant of IsCollision: two records are enough
IsCollisionByCount(modules) == Len(modules) > 1

\* A faulty variant of IsCollision: only the first two records are compared
IsCollisionAdjacent(modules) ==
    Len(modules) > 1 /\ modules[1].package.name # modules[2].package.name

\* lines 42-43: the records come from more than one package
IsCollision(modules) ==
    Cardinality({modules[i].package.name : i \in 1..Len(modules)}) > 1

\* A faulty variant of DetectCollisions: a package's second and later records
\* of a name are left out of the report
RECURSIVE OnePerOwner(_)
OnePerOwner(ms) ==
    IF ms = <<>> THEN <<>>
    ELSE LET init == OnePerOwner(SubSeq(ms, 1, Len(ms) - 1))
             r == ms[Len(ms)]
         IN IF \E i \in 1..Len(init) : init[i].package.name = r.package.name
            THEN init ELSE Append(init, r)

DetectCollisionsOnePerOwner(inv) ==
    LET Collides(e) == IsCollision(e.modules)
        kept == SelectSeq(ModuleMap(inv), Collides)
    IN [i \in 1..Len(kept) |->
          [name |-> kept[i].name, modules |-> OnePerOwner(kept[i].modules)]]

\* CollisionDetector.detect_collisions: report.conflicts
DetectCollisions(inv) ==
    LET Collides(e) == IsCollision(e.modules)
    IN SelectSeq(ModuleMap(inv), Collides)

\* ConflictReport.has_conflicts / get_conflict_count
has_conflicts(c) == \E i \in 1..Len(c) : Len(c[i].modules) > 1
get_conflict_count(c) == Cardinality({i \in 1..Len(c) : Len(c[i].modules) > 1})

(***************************************************************************)
(* Import scanning.  A project file is its path and its import statements  *)
(* in text order; a statement is `import <module>` or                      *)
(* `from <module> import <names>`, one target each, with or without an     *)
(* alias (`<target> as <name>`).                                           *)
(***************************************************************************)
Str_import == <<"i", "m", "p", "o", "r", "t">>
Str_from == <<"f", "r", "o", "m">>
Sp == <<" ">>

Str_as == <<" ", "a", "s", " ">>

\* lines 69-70: module.split(' as ')[0]
RECURSIVE BeforeAs(_)
BeforeAs(s) ==
    IF s = <<>> \/ StartsWith(s, Str_as) THEN <<>>
    ELSE <<Head(s)>> \o BeforeAs(Tail(s))

ImportStmt(mod) == [kind |-> "import", module |-> mod, names |-> <<>>]
FromStmt(mod, names) == [kind |-> "from", module |-> mod, names |-> names]

\* f"import {module}" and f"from {module} import {imports_str}"
ImportText(mod) == Str_import \o Sp \o mod
FromText(mod, names) == Str_from \o Sp \o mod \o Sp \o Str_import \o Sp \o names

\* lines 63-76: r'import\s+([^;#\n]+)' matches every `import <target>`, the
\* one inside a from statement too
RECURSIVE RegularImports(_)
RegularImports(stmts) ==
    IF stmts = <<>> THEN <<>>
    ELSE LET st == Head(stmts)
             target == IF st.kind = "import" THEN st.module ELSE st.names
             module == BeforeAs(target)
         IN <<[top |-> TopLevel(module), text |-> ImportText(module)]>>
            \o RegularImports(Tail(stmts))

\* lines 79-87: r'from\s+(\S+)\s+import\s+(...)'
RECURSIVE FromImports(_)
FromImports(stmts) ==
    IF stmts = <<>> THEN <<>>
    ELSE LET st == Head(stmts)
         IN (IF st.kind = "from"
             THEN <<[top |-> TopLevel(st.module), text |-> FromText(st.module, st.names)]>>
             ELSE <<>>)
            \o FromImports(Tail(stmts))

\* CollisionDetector._find_imports_in_file: imports[m], [] when m is no key
FindImports(stmts, m) ==
    LET found == RegularImports(stmts) \o FromImports(stmts)
        Of(e) == e.top = m
        mine == SelectSeq(found, Of)
    IN [i \in 1..Len(mine) |-> mine[i].text]

\* A faulty variant of Classify: the other forms are rated INFO
ClassifyInfo(import_stmt, module_name) ==
    IF \/ StartsWith(import_stmt, ImportText(module_name))
       \/ StartsWith(import_stmt, Str_from \o Sp \o module_name \o Sp \o Str_import)
    THEN "HIGH" ELSE "INFO"

\* line 131: the severity of one usage site
Classify(import_stmt, module_name) ==
    IF \/ StartsWith(import_stmt, ImportText(module_name))
       \/ StartsWith(import_stmt, Str_from \o Sp \o module_name \o Sp \o Str_import)
    THEN "HIGH" ELSE "MEDIUM"

\* f"{file_path}: {import_stmt}"
UsageSite(file_path, import_stmt) == file_path \o <<":", " ">> \o import_stmt

\* dict.get(k, default) and d[k] = v for a dict held as a function
GetOr(d, k, default) == IF k \in DOMAIN d THEN d[k] ELSE default
Put(d, k, v) == [x \in DOMAIN d \cup {k} |-> IF x = k THEN v ELSE d[x]]

\* DetailedConflictReport.set_severity
SetSeverity(sev, module_name, severity) == Put(sev, module_name, severity)

\* DetailedConflictReport.add_import_path
AddImportPath(ip, module_name, import_path) ==
    Put(ip, module_name, GetOr(ip, module_name, {}) \cup {import_path})

\* lines 126-134 for one module of one file: <<severities, import_paths, observed>>
RECURSIVE ForStmts(_, _, _, _)
ForStmts(stmts, file_path, m, st) ==
    IF stmts = <<>> THEN st
    ELSE LET c == Classify(Head(stmts), m)
         IN ForStmts(Tail(stmts), file_path, m,
                     <<SetSeverity(st[1], m, c),
                       AddImportPath(st[2], m, UsageSite(file_path, Head(stmts))),
                       Put(st[3], m, GetOr(st[3], m, {}) \cup {c})>>)

\* lines 124-134 for one file.  The modules' data are separate dict entries,
\* so the order in which the set conflicting_modules is walked is immaterial.
RECURSIVE ForModules(_, _, _)
ForModules(ms, file, st) ==
    IF ms = <<>> THEN st
    ELSE ForModules(Tail(ms), file,
                    ForStmts(FindImports(file.stmts, Head(ms)), file.path, Head(ms), st))

\* scan_project, line 151: detect_collisions, and lines 106-117 of
\* analyze_project_imports
detect_collisions ==
    /\ scan_pc = "start"
    /\ conflicts' = DetectCollisions(inventory)
    /\ scan_pc' = "detected"
    /\ UNCHANGED <<nodes, gad, inventory, files, file_i, severities, import_paths,
                   observed, plans, execVars>>

\* analyze_project_imports: one iteration of `for file_path in project_files`
analyze_file ==
    /\ scan_pc = "detected"
    /\ file_i < Len(files)
    /\ LET st == ForModules(Keys(conflicts), files[file_i + 1],
                            <<severities, import_paths, observed>>)
       IN /\ severities' = st[1]
          /\ import_paths' = st[2]
          /\ observed' = st[3]
    /\ file_i' = file_i + 1
    /\ UNCHANGED <<nodes, gad, inventory, files, conflicts, scan_pc, plans, execVars>>

\* analyze_project_imports, line 136, and scan_project, line 156
scan_return ==
    /\ scan_pc = "detected"
    /\ file_i = Len(files)
    /\ scan_pc' = "scanned"
    /\ UNCHANGED <<nodes, gad, inventory, files, file_i, conflicts, severities,
                   import_paths, observed, plans, execVars>>

(***************************************************************************)
(* The fix planner (fix/engine.py, models/fix_plan.py).                    *)
(***************************************************************************)
\* A faulty variant of ShouldUseShim: HIGH is shimmed too
ShouldUseShimOrHigh(module_name, sev) ==
    GetOr(sev, module_name, "MEDIUM") \in {"HIGH", "MEDIUM", "LOW"}

\* FixEngine._should_use_shim
ShouldUseShim(module_name, sev) ==
    GetOr(sev, module_name, "MEDIUM") \in {"MEDIUM", "LOW"}

\* A faulty variant of ShouldUseVersionConstraint: CRITICAL is left out
ShouldUseVersionConstraintHighOnly(module_name, sev) ==
    GetOr(sev, module_name, "MEDIUM") \in {"HIGH"}

\* FixEngine._should_use_version_constraint
ShouldUseVersionConstraint(module_name, sev) ==
    GetOr(sev, module_name, "MEDIUM") \in {"CRITICAL", "HIGH"}

\* lines 52-57: package_counts, as its keys in insertion order and its values
RECURSIVE CountRecords(_, _, _)
CountRecords(modules, import_path, pc) ==
    IF modules = <<>> THEN pc
    ELSE LET n == Head(modules).package.name
         IN CountRecords(Tail(modules), import_path,
                IF Contains(import_path, n)
                THEN [keys |-> IF n \in Range(pc.keys) THEN pc.keys ELSE Append(pc.keys, n),
                      count |-> Put(pc.count, n, GetOr(pc.count, n, 0) + 1)]
                ELSE pc)

\* lines 50-51: the walk over the set report.import_paths[module_name], in
\* the order `sites` in which the set yields its elements
RECURSIVE CountSites(_, _, _)
CountSites(sites, modules, pc) ==
    IF sites = <<>> THEN pc
    ELSE CountSites(Tail(sites), modules, CountRecords(modules, Head(sites), pc))

\* sorted(keys, key=count, reverse=True): stable, so equal counts keep the
\* keys' order
RECURSIVE InsertByCount(_, _, _)
InsertByCount(x, ys, count) ==
    IF ys = <<>> THEN <<x>>
    ELSE IF count[x] > count[Head(ys)] THEN <<x>> \o ys
    ELSE <<Head(ys)>> \o InsertByCount(x, Tail(ys), count)

RECURSIVE SortedByCount(_, _)
SortedByCount(keys, count) ==
    IF keys = <<>> THEN <<>>
    ELSE InsertByCount(keys[Len(keys)], SortedByCount(SubSeq(keys, 1, Len(keys) - 1), count),
                       count)

\* FixEngine._get_preferred_packages
GetPreferredPackages(modules, sites) ==
    LET pc == CountSites(sites, modules, [keys |-> <<>>, count |-> <<>>])
    IN SortedByCount(pc.keys, pc.count)

\* A faulty variant of DefaultOrder: the packages in record order
DefaultOrderUnsorted(modules) == [i \in 1..Len(modules) |-> modules[i].package.name]

\* lines 85-86: sorted(package_names)
DefaultOrder(modules) == SortedStr([i \in 1..Len(modules) |-> modules[i].package.name])

\* A faulty variant of RenameShim: the action is filed under the module name
RenameShimSwapped(module_name, module) ==
    [fix_type |-> "RENAME_SHIM", module_name |-> module_name,
     package_name |-> module_name,
     details |-> [renamed_to |-> module.package.name \o <<".">> \o module_name,
                  original_name |-> module_name]]

\* lines 90-99
RenameShim(module_name, module) ==
    [fix_type |-> "RENAME_SHIM", module_name |-> module_name,
     package_name |-> module.package.name,
     details |-> [renamed_to |-> module.package.name \o <<".">> \o module_name,
                  original_name |-> module_name]]

VersionConstraint(module_name, module) ==
    [fix_type |-> "VERSION_CONSTRAINT", module_name |-> module_name,
     package_name |-> module.package.name,
     details |-> [new_version |-> "latest", current_version |-> module.package.version]]

Manual(module_name, module) ==
    [fix_type |-> "MANUAL", module_name |-> module_name,
     package_name |-> module.package.name,
     details |-> [reason |-> "Complex conflict requires manual intervention"]]

\* lines 89-100: a shim for every record whose package is not the keeper
ShimActions(module_name, modules, keeper) ==
    LET NotKeeper(m) == m.package.name # keeper
        others == SelectSeq(modules, NotKeeper)
    IN [i \in 1..Len(others) |-> RenameShim(module_name, others[i])]

\* lines 76-128: the actions one item of report.conflicts adds to the plan
ActionsFor(module_name, modules, sev, sites) ==
    IF Len(modules) <= 1 THEN <<>>
    ELSE IF ShouldUseShim(module_name, sev)
    THEN LET preferred == GetPreferredPackages(modules, sites)
             preferred_packages == IF preferred = <<>> THEN DefaultOrder(modules)
                                   ELSE preferred
         IN ShimActions(module_name, modules, preferred_packages[1])
    ELSE IF ShouldUseVersionConstraint(module_name, sev)
    THEN [i \in 1..Len(modules) |-> VersionConstraint(module_name, modules[i])]
    ELSE [i \in 1..Len(modules) |-> Manual(module_name, modules[i])]

\* A faulty variant of add_action: the action is put in front
add_action_first(actions, action) == <<action>> \o actions

\* FixPlan.add_action (fix_plan.py:47-49)
add_action(actions, action) == Append(actions, action)

\* plan.add_action(action) for the actions of one item, as the loops over its
\* records make them (lines 89-100, 105-115, 119-128)
RECURSIVE AddActions(_, _)
AddActions(actions, new) ==
    IF new = <<>> THEN actions
    ELSE AddActions(add_action(actions, Head(new)), Tail(new))

\* FixEngine.suggest_fixes: plan.actions after the loop over
\* report.conflicts.items().  order[m] is the order in which the set
\* import_paths[m] yields its elements in this run.
RECURSIVE SuggestFixes(_, _, _, _)
SuggestFixes(conf, sev, ip, order) ==
    IF conf = <<>> THEN <<>>
    ELSE LET item == conf[Len(conf)]
             m == item.name
         IN AddActions(SuggestFixes(SubSeq(conf, 1, Len(conf) - 1), sev, ip, order),
                       ActionsFor(m, item.modules, sev,
                                  IF m \in DOMAIN ip THEN order[m] ELSE <<>>))

\* The iteration orders the sets of import_paths can have
IterOrders(ip) ==
    {f \in [DOMAIN ip -> UNION {Orderings(ip[m]) : m \in DOMAIN ip}] :
        \A m \in DOMAIN ip : f[m] \in Orderings(ip[m])}

\* A call of suggest_fixes on the report
\* engine.py:15-37 read report.severities and report.import_paths, which
\* only a DetailedConflictReport has (conflict.py:29-38, 72-76): on a plain
\* ConflictReport the first entry with two or more records raises
\* AttributeError in _should_use_shim
SuggestFixesRaises(conf, report) ==
    /\ report = "ConflictReport"
    /\ \E i \in 1..Len(conf) : Len(conf[i].modules) > 1

\* the report a caller holds: the ConflictReport detect_collisions returned
\* (collision_detector.py:47), or the DetailedConflictReport of scan_project
ReportReady == IF suggest.report = "ConflictReport" THEN "detected" ELSE "scanned"

suggest_fixes ==
    /\ scan_pc = ReportReady
    /\ Len(plans) < MaxRuns
    /\ IF SuggestFixesRaises(conflicts, suggest.report)
       THEN /\ suggest' = [suggest EXCEPT !.pc = "raised"]
            /\ plans' = plans
       ELSE /\ \E order \in IterOrders(import_paths) :
                  plans' = Append(plans, SuggestFixes(conflicts, severities,
                                                      import_paths, order))
            /\ suggest' = [suggest EXCEPT !.pc = "returned"]
    /\ UNCHANGED <<nodes, gad, inventory, files, file_i, conflicts, severities,
                   import_paths, observed, scan_pc, fix, fs, ext, cli>>

(***************************************************************************)
(* The fix executors and apply_fixes (fix/engine.py, lines 132-351).       *)
(* The project directory is `fs`: the shim directory .modguard/shims with  *)
(* its shim files and __init__.py, the first package __init__.py os.walk   *)
(* finds, requirements.txt and pyproject.toml.  A manifest is the list of  *)
(* its pins <name, version>.                                               *)
(***************************************************************************)
\* A version as the text an f-string writes
VersionText(v) ==
    CASE v = "latest" -> <<"l", "a", "t", "e", "s", "t">>
      [] v = "1.0.0" -> <<"1", ".", "0", ".", "0">>
      [] v = "2.0.0" -> <<"2", ".", "0", ".", "0">>

\* s.endswith(p)
EndsWith(s, p) == Len(p) <= Len(s) /\ SubSeq(s, Len(s) - Len(p) + 1, Len(s)) = p

\* The text of requirements.txt: a line f"{name}=={version}" per pin
RECURSIVE ReqText(_)
ReqText(lines) ==
    IF lines = <<>> THEN <<>>
    ELSE Head(lines).name \o <<"=", "=">> \o Head(lines).version \o <<"\n">>
         \o ReqText(Tail(lines))

\* re.sub(rf'{package_name}(==|>=|...).*', ...) and re.sub(rf'{package_name}\s*=\s*".*"', ...):
\* the pattern is not anchored, so it matches in every line whose name ends
\* with package_name, and replaces from there to the end of the line
SubPins(lines, package_name, new_version) ==
    [i \in 1..Len(lines) |->
        IF EndsWith(lines[i].name, package_name)
        THEN [lines[i] EXCEPT !.version = new_version]
        ELSE lines[i]]

\* lines 255-263: the new content of requirements.txt
UpdateRequirements(lines, package_name, new_version) ==
    LET updated == SubPins(lines, package_name, new_version)
    IN IF ~Contains(ReqText(updated), package_name)
       THEN Append(updated, [name |-> package_name, version |-> new_version])
       ELSE updated

\* lines 279-288: the new content of [tool.poetry.dependencies] in pyproject.toml
UpdatePyproject(lines, package_name, new_version) ==
    IF \E i \in 1..Len(lines) : EndsWith(lines[i].name, package_name)
    THEN SubPins(lines, package_name, new_version)
    ELSE <<[name |-> package_name, version |-> new_version]>> \o lines

AppliedFix(action, success, details) ==
    [action |-> action, success |-> success, details |-> details]

\* What a call of an executor comes to: an AppliedFix or an exception, and
\* the project directory after it
Outcome(raised, applied, f) == [raised |-> raised, applied |-> applied, fs |-> f]

\* f"shim_{action.package_name}_{action.module_name}.py"
ShimFile(action) == <<action.package_name, action.module_name>>

\* lines 183-219: the shim file, the shim package's __init__.py and the
\* project's first __init__.py
WriteShim(action, f) ==
    LET id == ShimFile(action)
    IN [f EXCEPT
          !.shims = Put(@, id, action.details.renamed_to),
          !.shims_init =
              IF @.exists
              THEN IF id \in Range(@.lines) THEN @ ELSE [@ EXCEPT !.lines = Append(@, id)]
              ELSE [exists |-> TRUE, lines |-> <<id>>],
          !.pkg_init = IF @ = "plain" THEN "hooked" ELSE @]

\* FixEngine._apply_shim_fix.  os.makedirs (line 142) and the f-string that
\* reads action.details['renamed_to'] (lines 146-180) stand before the try.
ApplyShimFix(action, f) ==
    IF f.shim_dir = "blocked"
    THEN Outcome("OSError", AppliedFix(action, FALSE, ""), f)
    ELSE LET f1 == [f EXCEPT !.shim_dir = "present"]
         IN IF "renamed_to" \notin DOMAIN action.details
            THEN Outcome("KeyError", AppliedFix(action, FALSE, ""), f1)
            ELSE IF f1.shim_locked
            THEN Outcome("no", AppliedFix(action, FALSE, "Failed to create import hook"), f1)
            ELSE Outcome("no", AppliedFix(action, TRUE, "Created import hook"),
                         WriteShim(action, f1))

\* FixEngine._apply_version_constraint_fix: the first manifest that exists
\* (and, for pyproject.toml, has the section [tool.poetry.dependencies]) is
\* rewritten
ApplyVersionConstraintFix(action, f) ==
    LET Failed == Outcome("no", AppliedFix(action, FALSE, "Failed to update version constraint"), f)
        Done(g) == Outcome("no", AppliedFix(action, TRUE, "Updated version constraint"), g)
        Broken == "new_version" \notin DOMAIN action.details \/ f.manifest_locked
    IN IF f.requirements.exists
       THEN IF Broken THEN Failed
            ELSE Done([f EXCEPT !.requirements.lines =
                          UpdateRequirements(@, action.package_name,
                                             VersionText(action.details.new_version))])
       ELSE IF f.pyproject.kind = "poetry"
       THEN IF Broken THEN Failed
            ELSE Done([f EXCEPT !.pyproject.lines =
                          UpdatePyproject(@, action.package_name,
                                          VersionText(action.details.new_version))])
       ELSE Outcome("no", AppliedFix(action, FALSE, "No requirements.txt or pyproject.toml found"), f)

\* lines 343-347
NotImplementedFix(action, f) ==
    Outcome("no", AppliedFix(action, FALSE, "Fix type not implemented for automatic application"), f)

\* A faulty variant of DryRunFix: the dry run executes the action
DryRunFixExecuting(action, f) ==
    IF action.fix_type = "RENAME_SHIM" THEN ApplyShimFix(action, f)
    ELSE IF action.fix_type = "VERSION_CONSTRAINT" THEN ApplyVersionConstraintFix(action, f)
    ELSE NotImplementedFix(action, f)

\* lines 329-335
DryRunFix(action, f) ==
    Outcome("no", AppliedFix(action, TRUE, "Dry run - not actually applied"), f)

\* lines 329-347: the executor a loop iteration calls, "none" when it calls none
ExecutorOf(action, dry_run) ==
    IF dry_run THEN "none"
    ELSE IF action.fix_type = "RENAME_SHIM" THEN "_apply_shim_fix"
    ELSE IF action.fix_type = "VERSION_CONSTRAINT" THEN "_apply_version_constraint_fix"
    ELSE "none"

\* lines 329-347: what one loop iteration computes
ApplyOne(action, dry_run, f) ==
    IF dry_run THEN DryRunFix(action, f)
    ELSE IF action.fix_type = "RENAME_SHIM" THEN ApplyShimFix(action, f)
    ELSE IF action.fix_type = "VERSION_CONSTRAINT" THEN ApplyVersionConstraintFix(action, f)
    ELSE NotImplementedFix(action, f)

\* FixEngine.apply_fixes: the call, up to the for loop
apply_fixes(plan, dry_run) ==
    /\ fix.pc = "idle"
    /\ cli.pc = "idle"
    /\ fix' = [FixIdle EXCEPT !.pc = "loop", !.plan = plan, !.dry_run = dry_run]
    /\ UNCHANGED <<suggest, nodes, gad, inventory, files, file_i, conflicts, severities,
                   import_paths, observed, scan_pc, plans, fs, ext, cli>>

\* FixResult.add_result
AddResult(applied_fixes, applied) == Append(applied_fixes, applied)

\* One iteration of `for action in plan.actions`; an exception of the
\* executor leaves apply_fixes, which returns no FixResult then
apply_action ==
    /\ fix.pc = "loop"
    /\ fix.i < Len(fix.plan)
    /\ LET action == fix.plan[fix.i + 1]
           out == ApplyOne(action, fix.dry_run, fs)
           executor == ExecutorOf(action, fix.dry_run)
           calls == IF executor = "none" THEN fix.calls
                    ELSE Append(fix.calls, [executor |-> executor, index |-> fix.i + 1])
           wrote == IF out.fs # fs THEN fix.wrote \cup {fix.i + 1} ELSE fix.wrote
       IN /\ fs' = out.fs
          /\ fix' = IF out.raised # "no"
                    THEN [fix EXCEPT !.pc = "raised", !.calls = calls, !.wrote = wrote]
                    ELSE [fix EXCEPT !.i = @ + 1, !.calls = calls, !.wrote = wrote,
                                     !.applied_fixes = AddResult(@, out.applied)]
    /\ UNCHANGED <<suggest, nodes, gad, inventory, files, file_i, conflicts, severities,
                   import_paths, observed, scan_pc, plans, ext, cli>>

\* line 351
apply_return ==
    /\ fix.pc = "loop"
    /\ fix.i = Len(fix.plan)
    /\ fix' = [fix EXCEPT !.pc = "returned"]
    /\ UNCHANGED <<suggest, nodes, gad, inventory, files, file_i, conflicts, severities,
                   import_paths, observed, scan_pc, plans, fs, ext, cli>>

\* FixResult.all_successful / failure_count
all_successful(applied_fixes) ==
    \A i \in 1..Len(applied_fixes) : applied_fixes[i].success
failure_count(applied_fixes) ==
    Cardinality({i \in 1..Len(applied_fixes) : ~applied_fixes[i].success})

(***************************************************************************)
(* The module extractor (extractor/module_extractor.py) and the scan       *)
(* command (cli.py).  The world outside the project directory is ext.env:  *)
(* for each package, whether a virtual environment can be made for it, pip *)
(* can install it and the extractor script runs, and the modules it has.   *)
(***************************************************************************)
\* The version the manifest parsers read from a pin's text
TextVersion(t) ==
    IF t = <<>> THEN "latest"
    ELSE CHOOSE v \in {"latest", "1.0.0", "2.0.0"} : VersionText(v) = t

\* DependencyGraphBuilder._parse_requirements_txt
ParseRequirementsTxt(f) ==
    IF f.requirements.exists
    THEN [i \in 1..Len(f.requirements.lines) |->
            PackageInfo(f.requirements.lines[i].name,
                        TextVersion(f.requirements.lines[i].version))]
    ELSE <<>>

\* DependencyGraphBuilder._parse_pyproject_toml, the Poetry table
ParsePyprojectToml(f) ==
    IF f.pyproject.kind = "poetry"
    THEN [i \in 1..Len(f.pyproject.lines) |->
            PackageInfo(f.pyproject.lines[i].name,
                        TextVersion(f.pyproject.lines[i].version))]
    ELSE <<>>

\* root_package: the project directory's name, version 0.0.0
RootName == <<"p">>
RootPackage == PackageInfo(RootName, "0.0.0")

\* lines 192-202: graph.add_dependency(root_package, dep_package) for each
\* declared package
RECURSIVE AddDeclared(_, _)
AddDeclared(ns, declared) ==
    IF declared = <<>> THEN ns
    ELSE AddDeclared(AddDependencyTo(ns, RootPackage, Head(declared)), Tail(declared))

\* DependencyGraphBuilder.from_project: graph.nodes
FromProject(f) == AddDeclared(<<>>, ParseRequirementsTxt(f) \o ParsePyprojectToml(f))

\* DependencyGraph.get_all_packages for the graph from_project built: the
\* dict keeps the order of insertion, root first
GetAllPackages(f) ==
    LET declared == ParseRequirementsTxt(f) \o ParsePyprojectToml(f)
        ns == FromProject(f)
        names == IF declared = <<>> THEN <<>>
                 ELSE FirstSeen(<<RootName>> \o [i \in 1..Len(declared) |-> declared[i].name])
    IN [i \in 1..Len(names) |-> ns[names[i]].package]

\* What a call of extract_modules_from_package comes to
Extracted(raised, modules) == [raised |-> raised, modules |-> modules]

\* lines 219-226: the ModuleInfo list built from the script's output
ModulesOf(names, package_name, version) ==
    [j \in 1..Len(names) |->
        [name |-> names[j], path |-> j,
         package |-> PackageInfo(package_name, IF version = "None" THEN "latest" ELSE version)]]

\* lines 210-212: `if not cls._install_package(temp_dir, package_spec)`
InstallFailed(e) == e.install = "fails"

\* ModuleExtractor.extract_modules_from_package in the world e of the package.
\* venv.create (line 207) is called outside any try.
ExtractModulesFromPackage(package_name, version, e) ==
    IF version = "None"
    THEN Extracted("no", IF e.installed THEN ModulesOf(e.modules, package_name, version)
                         ELSE <<>>)
    ELSE IF e.venv = "fails" THEN Extracted("CalledProcessError", <<>>)
    ELSE IF InstallFailed(e) THEN Extracted("no", <<>>)
    ELSE IF e.script # "ok" THEN Extracted("no", <<>>)
    ELSE Extracted("no", ModulesOf(e.modules, package_name, version))

\* scan_command, lines 38-53: from_project, the test for an empty graph and
\* the call of extract_modules_from_dependency_graph up to its loop
scan_command(fix_arg, dry_run) ==
    /\ cli.pc = "idle"
    /\ nodes' = FromProject(fs)
    /\ IF DOMAIN FromProject(fs) = {}
       THEN /\ cli' = [cli EXCEPT !.pc = "exited", !.fix = fix_arg, !.dry_run = dry_run,
                                  !.exit = 1]
            /\ ext' = ext
       ELSE /\ cli' = [cli EXCEPT !.pc = "extract", !.fix = fix_arg, !.dry_run = dry_run]
            /\ ext' = [ext EXCEPT !.pc = "loop", !.packages = GetAllPackages(fs),
                                  !.i = 0, !.result = <<>>]
    /\ UNCHANGED <<suggest, gad, inventory, files, file_i, conflicts, severities, import_paths,
                   observed, scan_pc, plans, fix, fs>>

\* extract_modules_from_dependency_graph: one iteration of
\* `for package in graph.get_all_packages()`; an exception leaves the loop,
\* extract_modules_from_dependency_graph and scan_command
extract_package ==
    /\ ext.pc = "loop"
    /\ ext.i < Len(ext.packages)
    /\ LET package == ext.packages[ext.i + 1]
           out == ExtractModulesFromPackage(package.name, package.version,
                                            ext.env[package.name])
       IN IF out.raised # "no"
          THEN /\ ext' = [ext EXCEPT !.pc = "raised"]
               /\ cli' = [cli EXCEPT !.pc = "raised", !.exit = 1]
          ELSE /\ ext' = [ext EXCEPT !.i = @ + 1,
                                     !.result = Append(@, [name |-> package.name,
                                                           modules |-> out.modules])]
               /\ cli' = cli
    /\ UNCHANGED <<suggest, nodes, gad, inventory, files, file_i, conflicts, severities,
                   import_paths, observed, scan_pc, plans, fix, fs>>

\* line 240 and scan_command, line 57: the inventory goes to scan_project
extract_return ==
    /\ ext.pc = "loop"
    /\ ext.i = Len(ext.packages)
    /\ ext' = [ext EXCEPT !.pc = "returned"]
    /\ inventory' = ext.result
    /\ scan_pc' = "start"
    /\ cli' = [cli EXCEPT !.pc = "scan"]
    /\ UNCHANGED <<suggest, nodes, gad, files, file_i, conflicts, severities, import_paths,
                   observed, plans, fix, fs>>

\* scan_command, lines 59-81 up to the call of apply_fixes
scan_plan ==
    /\ cli.pc = "scan"
    /\ scan_pc = "scanned"
    /\ IF ~has_conflicts(conflicts)
       THEN /\ cli' = [cli EXCEPT !.pc = "exited", !.exit = 0]
            /\ UNCHANGED <<suggest, plans, fix>>
       ELSE \E order \in IterOrders(import_paths) :
               LET plan == SuggestFixes(conflicts, severities, import_paths, order)
               IN /\ plans' = Append(plans, plan)
                  /\ suggest' = [suggest EXCEPT !.pc = "returned"]
                  /\ IF cli.fix
                     THEN /\ fix' = [FixIdle EXCEPT !.pc = "loop", !.plan = plan,
                                                    !.dry_run = cli.dry_run]
                          /\ cli' = [cli EXCEPT !.pc = "apply"]
                     ELSE /\ fix' = fix
                          /\ cli' = [cli EXCEPT !.pc = "exited", !.exit = 1]
    /\ UNCHANGED <<nodes, gad, inventory, files, file_i, conflicts, severities,
                   import_paths, observed, scan_pc, fs, ext>>

\* scan_command, lines 74-81 after apply_fixes; an exception of apply_fixes
\* leaves scan_command, and the interpreter exits with status 1
scan_exit ==
    /\ cli.pc = "apply"
    /\ fix.pc \in {"returned", "raised"}
    /\ cli' = IF fix.pc = "raised" THEN [cli EXCEPT !.pc = "raised", !.exit = 1]
              ELSE IF ~all_successful(fix.applied_fixes)
              THEN [cli EXCEPT !.pc = "exited", !.exit = 1]
              ELSE [cli EXCEPT !.pc = "exited",
                               !.exit = IF ~has_conflicts(conflicts) THEN 0
                                        ELSE IF cli.fix THEN 0 ELSE 1]
    /\ UNCHANGED <<suggest, nodes, gad, inventory, files, file_i, conflicts, severities,
                   import_paths, observed, scan_pc, plans, fix, fs, ext>>

(***************************************************************************)
(* Inputs.                                                                 *)
(***************************************************************************)
RECURSIVE TotalLen(_)
TotalLen(ls) == IF ls = <<>> THEN 0 ELSE Len(Head(ls)) + TotalLen(Tail(ls))

\* The dicts package name -> [ModuleInfo] with at most n records in all,
\* every record owned by the package it is listed under
Inventories(n) ==
    LET keyOrders == UNION {Orderings(S) : S \in SUBSET PkgNames}
    IN UNION {
         {[i \in 1..Len(q) |->
             [name |-> q[i],
              modules |-> [j \in 1..Len(l[i]) |-> ModuleInfo(l[i][j], j, q[i])]]] :
            l \in {l \in [1..Len(q) -> SeqUpTo(ModNames, n)] : TotalLen(l) <= n}} :
         q \in keyOrders}

PathA == <<"a", ".", "p", "y">>
PathC == <<"c", ".", "p", "y">>
PathM == <<"m", ".", "p", "y">>
ScanPaths == {PathA, PathM}

ModUSub == <<"u", ".", "s">>
NameX == <<"x">>
ModUSubAsX == ModUSub \o Str_as \o NameX

FileContents ==
    { <<ImportStmt(ModU)>>,
      <<FromStmt(ModUSub, NameX)>>,
      <<FromStmt(ModUSub, NameX), ImportStmt(ModU)>>,
      <<FromStmt(ModV, ModU)>>,
      <<ImportStmt(ModUSubAsX)>> }

\* The project files in the order os.walk yields them
Projects ==
    UNION {
      UNION { {[i \in 1..Len(q) |-> [path |-> q[i], stmts |-> c[i]]] :
                 c \in [1..Len(q) -> FileContents]} :
              q \in Orderings(S)} :
      S \in SUBSET ScanPaths}

GraphIdle ==
    /\ nodes = <<>>
    /\ gad = GadIdle

DetectInit ==
    /\ GraphIdle
    /\ inventory \in Inventories(MaxRecords)
    /\ files = <<>>
    /\ file_i = 0
    /\ conflicts = <<>>
    /\ severities = <<>>
    /\ import_paths = <<>>
    /\ observed = <<>>
    /\ scan_pc = "start"
    /\ plans = <<>>
    /\ ExecIdle

DetectNext == detect_collisions

SpecDetect == DetectInit /\ [][DetectNext]_vars

ScanInit ==
    /\ GraphIdle
    /\ inventory \in Inventories(MaxScanRecords)
    /\ files \in Projects
    /\ file_i = 0
    /\ conflicts = <<>>
    /\ severities = <<>>
    /\ import_paths = <<>>
    /\ observed = <<>>
    /\ scan_pc = "start"
    /\ plans = <<>>
    /\ ExecIdle

ScanNext ==
    \/ detect_collisions
    \/ analyze_file
    \/ scan_return
    \/ suggest_fixes

SpecScan == ScanInit /\ [][ScanNext]_vars


\* The usage sites a report for module u is given
UsageSites ==
    { UsageSite(PathA, ImportText(ModU)),
      UsageSite(PathA, FromText(ModUSub, NameX)),
      UsageSite(PathC, ImportText(ModU)),
      UsageSite(PathM, ImportText(ModU)) }

SeverityValues == {"CRITICAL", "HIGH", "MEDIUM", "LOW", "INFO", "UNKNOWN"}

\* A DetailedConflictReport handed to suggest_fixes directly: at most one
\* entry, for module u
PlanInit ==
    /\ GraphIdle
    /\ inventory = <<>>
    /\ files = <<>>
    /\ file_i = 0
    /\ conflicts \in {<<>>} \cup
          {<<[name |-> ModU,
              modules |-> [j \in 1..Len(l) |-> ModuleInfo(ModU, j, l[j])]]>> :
             l \in SeqUpTo(PkgNames, MaxPlanRecords)}
    /\ severities \in {<<>>} \cup {ModU :> sv : sv \in SeverityValues}
    /\ import_paths \in {<<>>} \cup
          {ModU :> S : S \in {S \in SUBSET UsageSites : S # {} /\ Cardinality(S) <= MaxSites}}
    /\ observed = <<>>
    /\ scan_pc = "scanned"
    /\ plans = <<>>
    /\ ExecIdle

PlanNext == suggest_fixes

SpecPlan == PlanInit /\ [][PlanNext]_vars


\* The actions of the plans handed to apply_fixes directly: those
\* suggest_fixes builds, a RENAME_SHIM built without renamed_to, and an
\* ISOLATION action
ShimA == RenameShim(ModU, ModuleInfo(ModU, 1, PkgA))
ShimNoTarget == [ShimA EXCEPT !.details = [original_name |-> ModU]]
ConstraintA == VersionConstraint(ModU, ModuleInfo(ModU, 1, PkgA))
ManualC == Manual(ModU, ModuleInfo(ModU, 1, PkgC))
IsolationC == [fix_type |-> "ISOLATION", module_name |-> ModU, package_name |-> PkgC,
               details |-> [reason |-> "isolate"]]
ApplyActions == {ShimA, ShimNoTarget, ConstraintA, ManualC, IsolationC,
                 RenameShim(ModU, ModuleInfo(ModU, 1, PkgC))}

PinAB == [name |-> PkgAB, version |-> VersionText("1.0.0")]

\* The manifests of a project directory: <<requirements, pyproject, manifest_locked>>
Manifests ==
    { <<[exists |-> FALSE, lines |-> <<>>], [kind |-> "absent", lines |-> <<>>], FALSE>>,
      <<[exists |-> FALSE, lines |-> <<>>], [kind |-> "nosection", lines |-> <<>>], FALSE>>,
      <<[exists |-> TRUE, lines |-> <<PinAB>>], [kind |-> "absent", lines |-> <<>>], FALSE>>,
      <<[exists |-> TRUE, lines |-> <<PinAB>>], [kind |-> "absent", lines |-> <<>>], TRUE>>,
      <<[exists |-> FALSE, lines |-> <<>>], [kind |-> "poetry", lines |-> <<>>], FALSE>>,
      <<[exists |-> FALSE, lines |-> <<>>], [kind |-> "poetry", lines |-> <<>>], TRUE>> }

\* The project directories: .modguard/shims can be created, cannot be
\* created (.modguard is a file), or exists with the shim files unwritable
ProjectDirs ==
    {[FsEmpty EXCEPT !.shim_dir = sd[1], !.shim_locked = sd[2], !.pkg_init = pi,
                     !.requirements = m[1], !.pyproject = m[2], !.manifest_locked = m[3]] :
       sd \in {<<"absent", FALSE>>, <<"blocked", FALSE>>, <<"present", TRUE>>},
       pi \in {"absent", "plain"},
       m \in Manifests}

ApplyInit ==
    /\ GraphIdle
    /\ inventory = <<>>
    /\ files = <<>>
    /\ file_i = 0
    /\ conflicts = <<>>
    /\ severities = <<>>
    /\ import_paths = <<>>
    /\ observed = <<>>
    /\ scan_pc = "idle"
    /\ plans = <<>>
    /\ fix = FixIdle
    /\ fs \in ProjectDirs
    /\ ext = ExtIdle
    /\ cli = CliIdle
    /\ suggest = SuggestIdle

ApplyNext ==
    \/ \E plan \in SeqUpTo(ApplyActions, MaxActions), dry_run \in BOOLEAN :
          apply_fixes(plan, dry_run)
    \/ apply_action
    \/ apply_return

SpecApply == ApplyInit /\ [][ApplyNext]_vars

PinA == [name |-> PkgA, version |-> VersionText("1.0.0")]

\* The project directories scan_command is run in: no manifest, a
\* requirements.txt that declares a and ab, a pyproject.toml that declares ab
ScanDirs ==
    {FsEmpty,
     [FsEmpty EXCEPT !.pyproject = [kind |-> "poetry", lines |-> <<PinAB>>]]}
    \cup {[FsEmpty EXCEPT !.requirements = [exists |-> TRUE, lines |-> <<PinA, PinAB>>],
                          !.shim_dir = sd, !.manifest_locked = ml] :
            sd \in {"absent", "blocked"}, ml \in BOOLEAN}

\* What can happen to the extraction of one package
Worlds ==
    {[installed |-> FALSE, venv |-> "ok", install |-> "ok", script |-> "ok", modules |-> <<ModU>>],
     [installed |-> FALSE, venv |-> "ok", install |-> "ok", script |-> "ok", modules |-> <<ModV>>],
     [installed |-> FALSE, venv |-> "fails", install |-> "ok", script |-> "ok", modules |-> <<ModU>>],
     [installed |-> FALSE, venv |-> "ok", install |-> "fails", script |-> "ok", modules |-> <<ModU>>],
     [installed |-> FALSE, venv |-> "ok", install |-> "ok", script |-> "error", modules |-> <<ModU>>]}

\* The .py files of those projects
ScanProjects ==
    {<<>>,
     <<[path |-> PathA, stmts |-> <<ImportStmt(ModU)>>]>>,
     <<[path |-> PathA, stmts |-> <<FromStmt(ModUSub, NameX)>>]>>}

CliInit ==
    /\ GraphIdle
    /\ inventory = <<>>
    /\ files \in ScanProjects
    /\ file_i = 0
    /\ conflicts = <<>>
    /\ severities = <<>>
    /\ import_paths = <<>>
    /\ observed = <<>>
    /\ scan_pc = "idle"
    /\ plans = <<>>
    /\ fix = FixIdle
    /\ fs \in ScanDirs
    /\ \E e \in [{GetAllPackages(fs)[i].name : i \in 1..Len(GetAllPackages(fs))} -> Worlds] :
          ext = [ExtIdle EXCEPT !.env = e]
    /\ cli = CliIdle
    /\ suggest = SuggestIdle

CliNext ==
    \/ \E fix_arg, dry_run \in BOOLEAN : scan_command(fix_arg, dry_run)
    \/ extract_package
    \/ extract_return
    \/ detect_collisions
    \/ analyze_file
    \/ scan_return
    \/ scan_plan
    \/ apply_action
    \/ apply_return
    \/ scan_exit

SpecCli == CliInit /\ [][CliNext]_vars

(***************************************************************************)
(* Claims about the detector and the scan.                                 *)
(***************************************************************************)
\* The owner names of the inventory's records named m
OwnersOf(m) ==
    UNION {{inventory[i].modules[j].package.name :
              j \in {j \in 1..Len(inventory[i].modules) : inventory[i].modules[j].name = m}} :
           i \in 1..Len(inventory)}

RecordCount(m) ==
    TotalLen([i \in 1..Len(inventory) |->
                LET Is(r) == r.name = m IN SelectSeq(inventory[i].modules, Is)])

\* C1: a module name is a key of the report detect_collisions returns if and
\* only if the inventory's records of that name have at least two distinct
\* owner package names.
C1_KeyIffTwoOwners ==
    scan_pc = "detected" =>
        \A m \in ModNames : HasKey(conflicts, m) <=> Cardinality(OwnersOf(m)) >= 2

\* one package lists a module twice and nobody else has it; another module
\* is shared by two packages
C1_Witness ==
    /\ scan_pc = "detected"
    /\ \E m \in ModNames :
          RecordCount(m) >= 2 /\ Cardinality(OwnersOf(m)) = 1 /\ ~HasKey(conflicts, m)
    /\ \E m \in ModNames : Cardinality(OwnersOf(m)) = 2 /\ HasKey(conflicts, m)

\* C2: when the scan returns, the severity stored for a module is the most
\* severe classification observed over its usage sites: HIGH as soon as
\* one site was classified HIGH, whatever was processed after it.
C2_SeverityIsMostSevere ==
    scan_pc = "scanned" =>
        \A m \in DOMAIN observed :
            severities[m] = IF "HIGH" \in observed[m] THEN "HIGH" ELSE "MEDIUM"

\* The scenario of C3: two packages, each exporting module u only, and a
\* project of one file whose text is `import u`
C3_Scenario ==
    /\ Len(inventory) = 2
    /\ \A i \in 1..2 : Len(inventory[i].modules) = 1 /\ inventory[i].modules[1].name = ModU
    /\ Len(files) = 1
    /\ files[1].stmts = <<ImportStmt(ModU)>>
    /\ scan_pc = "scanned"

C3_Report ==
    /\ Keys(conflicts) = <<ModU>>
    /\ Len(Get(conflicts, ModU)) = 2
    /\ ModU \in DOMAIN severities
    /\ severities[ModU] = "HIGH"

\* C3 (as claimed): in the scenario the report has the one entry u with 2
\* records and severity HIGH, and the plan is exactly one RENAME_SHIM action,
\* for one of the two packages.
C3_ScenarioOneShim ==
    C3_Scenario =>
        /\ C3_Report
        /\ \A k \in 1..Len(plans) :
              /\ Len(plans[k]) = 1
              /\ plans[k][1].fix_type = "RENAME_SHIM"
              /\ plans[k][1].module_name = ModU
              /\ plans[k][1].package_name \in {inventory[1].name, inventory[2].name}

\* C3 (amended): in the scenario the report has the one entry u with 2
\* records and severity HIGH, and the plan is exactly two VERSION_CONSTRAINT
\* actions with new_version "latest", one per package in record order.
C3_ScenarioTwoConstraints ==
    C3_Scenario =>
        /\ C3_Report
        /\ \A k \in 1..Len(plans) :
              /\ Len(plans[k]) = 2
              /\ \A i \in 1..2 :
                    /\ plans[k][i].fix_type = "VERSION_CONSTRAINT"
                    /\ plans[k][i].module_name = ModU
                    /\ plans[k][i].package_name = inventory[i].name
                    /\ plans[k][i].details.new_version = "latest"

C3_Witness == C3_Scenario /\ Len(plans) >= 1

(***************************************************************************)
(* Claims about the planner, on reports with one entry.                    *)
(***************************************************************************)
PlanOwners(e) == {e.modules[i].package.name : i \in 1..Len(e.modules)}

SeverityOf(m) == IF m \in DOMAIN severities THEN severities[m] ELSE "MEDIUM"

ExpectedType(sv) ==
    IF sv \in {"MEDIUM", "LOW"} THEN "RENAME_SHIM"
    ELSE IF sv \in {"CRITICAL", "HIGH"} THEN "VERSION_CONSTRAINT"
    ELSE "MANUAL"

ActionsOf(plan, m) == {i \in 1..Len(plan) : plan[i].module_name = m}

\* C4: for an entry with at least two records every action for its module
\* has the type its severity selects (RENAME_SHIM for MEDIUM, LOW or none;
\* VERSION_CONSTRAINT for CRITICAL, HIGH; MANUAL otherwise); an entry with
\* at most one record has no action.
C4_DecisionRule ==
    \A k \in 1..Len(plans) : \A n \in 1..Len(conflicts) :
        LET e == conflicts[n]
            acts == ActionsOf(plans[k], e.name)
        IN IF Len(e.modules) <= 1 THEN acts = {}
           ELSE \A i \in acts : plans[k][i].fix_type = ExpectedType(SeverityOf(e.name))

\* a report of severity INFO with two owners, planned as MANUAL actions only
C4_Witness ==
    /\ Len(plans) >= 1
    /\ Len(conflicts) = 1
    /\ SeverityOf(ModU) = "INFO"
    /\ Cardinality(PlanOwners(conflicts[1])) >= 2
    /\ plans[1] # <<>>
    /\ \A i \in 1..Len(plans[1]) : plans[1][i].fix_type = "MANUAL"

ShimEntry(e) == Len(e.modules) >= 2 /\ ExpectedType(SeverityOf(e.name)) = "RENAME_SHIM"

\* C5: under RENAME_SHIM a module owned by k distinct packages gets exactly
\* k-1 actions, one per owning package other than the keeper, each with
\* renamed_to "<package>.<module>", also when a package has several records.
C5_OneShimPerPackage ==
    \A k \in 1..Len(plans) : \A n \in 1..Len(conflicts) :
        LET e == conflicts[n]
            acts == ActionsOf(plans[k], e.name)
        IN ShimEntry(e) =>
              /\ Cardinality(acts) = Cardinality(PlanOwners(e)) - 1
              /\ \A i, j \in acts :
                    plans[k][i].package_name = plans[k][j].package_name => i = j
              /\ \A i \in acts :
                    plans[k][i].details.renamed_to
                        = plans[k][i].package_name \o <<".">> \o e.name

\* The usage sites of m that hold package name p
SitesHolding(m, p) ==
    IF m \in DOMAIN import_paths THEN {u \in import_paths[m] : Contains(u, p)} ELSE {}

\* The owners the plan gives no action: the keeper
KeptBy(plan, e) ==
    PlanOwners(e) \ {plan[i].package_name : i \in ActionsOf(plan, e.name)}

\* C6: when some usage site holds an owner's name, the keeper is an owner
\* whose name occurs in the largest number of the module's usage sites, a
\* site counting once per package however many records the package has.
C6_KeeperHasMostSites ==
    \A k \in 1..Len(plans) : \A n \in 1..Len(conflicts) :
        LET e == conflicts[n]
        IN (ShimEntry(e) /\ \E p \in PlanOwners(e) : SitesHolding(e.name, p) # {}) =>
              /\ KeptBy(plans[k], e) # {}
              /\ \A kp \in KeptBy(plans[k], e) : \A q \in PlanOwners(e) :
                    Cardinality(SitesHolding(e.name, kp)) >= Cardinality(SitesHolding(e.name, q))

C8_SamePlanEveryRun ==
    \A i, j \in 1..Len(plans) : plans[i] = plans[j]


(***************************************************************************)
(* Claims about apply_fixes.                                               *)
(***************************************************************************)
ApplyFinished == fix.pc \in {"returned", "raised"}

Unsupported(action) == action.fix_type \in {"ISOLATION", "MANUAL"}

\* C15: a finished call of apply_fixes, real or dry, has returned a result
\* with exactly one outcome per plan action, the i-th outcome holding the
\* i-th action.
C15_OneOutcomePerAction ==
    ApplyFinished =>
        /\ fix.pc = "returned"
        /\ Len(fix.applied_fixes) = Len(fix.plan)
        /\ \A i \in 1..Len(fix.plan) : fix.applied_fixes[i].action = fix.plan[i]

\* The shim executor cannot do action's work in the project directory f
ShimMustFail(action, f) ==
    /\ action.fix_type = "RENAME_SHIM"
    /\ \/ f.shim_dir = "blocked"
       \/ f.shim_locked
       \/ "renamed_to" \notin DOMAIN action.details

\* C16: a real run never leaves the loop by an exception: when it has
\* finished every action of the plan has its outcome, and a shim action that
\* could not be executed (shim directory not creatable, shim file not
\* writable, renamed_to missing) has a failed one.
C16_FaultIsolation ==
    (~fix.dry_run /\ ApplyFinished) =>
        \A i \in 1..Len(fix.plan) :
            /\ i <= Len(fix.applied_fixes)
            /\ ShimMustFail(fix.plan[i], fs) => ~fix.applied_fixes[i].success

\* C17: in a finished real run every ISOLATION or MANUAL action has a failed
\* outcome with a message, its iteration called no executor and changed
\* nothing in the project directory, and every later action of the plan has
\* been executed.
C17_UnsupportedKinds ==
    (~fix.dry_run /\ ApplyFinished) =>
        \A i \in 1..Len(fix.plan) :
            Unsupported(fix.plan[i]) =>
                /\ i <= Len(fix.applied_fixes)
                /\ ~fix.applied_fixes[i].success
                /\ fix.applied_fixes[i].details # ""
                /\ i \notin fix.wrote
                /\ \A k \in 1..Len(fix.calls) : fix.calls[k].index # i
                /\ \A j \in (i + 1)..Len(fix.plan) : j <= Len(fix.applied_fixes)

\* C18: a dry run never raises, calls no executor and changes nothing in the
\* project directory; every outcome it records is a success, and when it
\* returns there is one per action.
C18_DryRun ==
    fix.dry_run =>
        /\ fix.pc # "raised"
        /\ fix.calls = <<>>
        /\ fix.wrote = {}
        /\ \A i \in 1..Len(fix.applied_fixes) :
              fix.applied_fixes[i].success /\ fix.applied_fixes[i].action = fix.plan[i]
        /\ fix.pc = "returned" => Len(fix.applied_fixes) = Len(fix.plan)

\* a dry run of a shim that a real run could not execute and of an
\* unsupported action has returned
C18_Witness ==
    /\ fix.dry_run
    /\ fix.pc = "returned"
    /\ Len(fix.plan) = 2
    /\ \E i \in 1..2 : ShimMustFail(fix.plan[i], fs)
    /\ \E i \in 1..2 : Unsupported(fix.plan[i])
    /\ fs.shim_dir = "blocked"

(***************************************************************************)
(* Claims about the scan command and the extraction.                       *)
(***************************************************************************)
\* A real run of the fixes went through without a failure
FixesApplied ==
    /\ cli.fix
    /\ ~cli.dry_run
    /\ fix.pc = "returned"
    /\ all_successful(fix.applied_fixes)

\* The report's conflicts are still there after what the command was asked
\* to do: there are some, and no real run of the fixes has cleared them
ConflictsRemain == has_conflicts(conflicts) /\ ~FixesApplied

AnyFixFailed == fix.pc = "returned" /\ ~all_successful(fix.applied_fixes)

\* C19: when scan returns, its exit code is 0 if no conflicts remain after
\* the requested action and 1 if conflicts persist or a fix failed, for
\* every combination of --fix and --dry-run and also for a project that
\* declares no dependencies.
C19_ExitCode ==
    cli.pc = "exited" =>
        cli.exit = IF ConflictsRemain \/ AnyFixFailed THEN 1 ELSE 0

\* The extraction of a package fails in the world e
ExtractionFails(e) == e.venv = "fails" \/ e.install = "fails" \/ e.script # "ok"

\* C20: the extraction loop is never left by an exception, and when it has
\* returned the inventory has an entry for every package of the graph, in
\* order: an empty module list for a package whose extraction failed
\* (virtual environment, install or script), its modules otherwise.
C20_ExtractionIsolated ==
    /\ ext.pc # "raised"
    /\ ext.pc = "returned" =>
          /\ Len(ext.result) = Len(ext.packages)
          /\ \A i \in 1..Len(ext.packages) :
                LET e == ext.env[ext.packages[i].name]
                IN /\ ext.result[i].name = ext.packages[i].name
                   /\ [j \in 1..Len(ext.result[i].modules) |-> ext.result[i].modules[j].name]
                         = IF ExtractionFails(e) THEN <<>> ELSE e.modules

(***************************************************************************)
(* detect_collisions and suggest_fixes on any input of the right type: an  *)
(* inventory handed to detect_collisions, whose ConflictReport goes to     *)
(* suggest_fixes as it is, and reports built by hand as in                 *)
(* tests/test_fix_engine.py:16-24, of either class, with no severity and   *)
(* no usage site.                                                          *)
(***************************************************************************)
ReportTypes == {"ConflictReport", "DetailedConflictReport"}

RobustInit ==
    /\ GraphIdle
    /\ files = <<>>
    /\ file_i = 0
    /\ severities = <<>>
    /\ import_paths = <<>>
    /\ observed = <<>>
    /\ plans = <<>>
    /\ fix = FixIdle
    /\ fs = FsEmpty
    /\ ext = ExtIdle
    /\ cli = CliIdle
    /\ \/ /\ inventory \in Inventories(MaxRecords)
          /\ conflicts = <<>>
          /\ scan_pc = "start"
          /\ suggest = [SuggestIdle EXCEPT !.report = "ConflictReport"]
       \/ /\ inventory = <<>>
          /\ conflicts \in {<<>>} \cup
                {<<[name |-> ModU,
                    modules |-> [j \in 1..Len(l) |-> ModuleInfo(ModU, j, l[j])]]>> :
                   l \in SeqUpTo(PkgNames, MaxPlanRecords)}
          /\ \E t \in ReportTypes :
                /\ suggest = [SuggestIdle EXCEPT !.report = t]
                /\ scan_pc = ReportReady

RobustNext ==
    \/ detect_collisions
    \/ suggest_fixes

SpecRobust == RobustInit /\ [][RobustNext]_vars

\* C21: detect_collisions and suggest_fixes never raise on an input of the
\* right type: every inventory gives a report and every conflict report (one
\* without severity or usage-site data, one with single-record entries
\* included) gives a plan, possibly empty.
C21_NeverRaises == suggest.pc # "raised"

\* suggest_fixes does return on the reports that have no entry of two
\* records, and on every DetailedConflictReport
C21_ReturnsWithoutPair ==
    (suggest.pc # "idle" /\ ~SuggestFixesRaises(conflicts, suggest.report))
        => suggest.pc = "returned" /\ plans # <<>>

ConstraintEntry(e) ==
    Len(e.modules) >= 2 /\ ExpectedType(SeverityOf(e.name)) = "VERSION_CONSTRAINT"

\* C22: under VERSION_CONSTRAINT (severity CRITICAL or HIGH) a module gets
\* exactly one action per distinct owning package, not one per record, each
\* of kind VERSION_CONSTRAINT with new_version "latest".
C22_OneConstraintPerPackage ==
    \A k \in 1..Len(plans) : \A n \in 1..Len(conflicts) :
        LET e == conflicts[n]
            acts == ActionsOf(plans[k], e.name)
        IN ConstraintEntry(e) =>
              /\ {plans[k][i].package_name : i \in acts} = PlanOwners(e)
              /\ \A i, j \in acts :
                    plans[k][i].package_name = plans[k][j].package_name => i = j
              /\ \A i \in acts :
                    /\ plans[k][i].fix_type = "VERSION_CONSTRAINT"
                    /\ plans[k][i].details.new_version = "latest"

\* what the code does instead: one action per record, in record order
C22_OneConstraintPerRecord ==
    \A k \in 1..Len(plans) : \A n \in 1..Len(conflicts) :
        LET e == conflicts[n]
        IN (Len(conflicts) = 1 /\ ConstraintEntry(e)) =>
              /\ Len(plans[k]) = Len(e.modules)
              /\ \A i \in 1..Len(e.modules) :
                    /\ plans[k][i].fix_type = "VERSION_CONSTRAINT"
                    /\ plans[k][i].package_name = e.modules[i].package.name
                    /\ plans[k][i].details.new_version = "latest"

(***************************************************************************)
(* Claims about the usage sites of a scan.                                 *)
(***************************************************************************)
\* The statement of a usage site "<file>: <statement>"
RECURSIVE StmtOf(_)
StmtOf(site) ==
    IF Len(site) < 2 THEN <<>>
    ELSE IF SubSeq(site, 1, 2) = <<":", " ">> THEN SubSeq(site, 3, Len(site))
    ELSE StmtOf(Tail(site))

\* The statement imports the bare name m: `import m` or `from m import ...`
ImportsBareName(stmt, m) ==
    \/ stmt = ImportText(m)
    \/ StartsWith(stmt, Str_from \o Sp \o m \o Sp \o Str_import \o Sp)

\* C23: a usage site of m is classified HIGH only when its statement imports
\* the bare name (`import m`, `from m import ...`); a statement that holds m
\* as the head of a dotted path (`import m.sub`, `from m.sub import x`) is
\* classified MEDIUM.
C23_SiteClassification ==
    \A m \in DOMAIN observed :
        observed[m] = {IF ImportsBareName(StmtOf(site), m) THEN "HIGH" ELSE "MEDIUM" :
                         site \in import_paths[m]}

\* what the code does: only a from statement with a dotted path is MEDIUM
C23_PrefixClassification ==
    \A m \in DOMAIN observed :
        observed[m] = {IF StartsWith(StmtOf(site), Str_from \o Sp \o m \o <<".">>)
                       THEN "MEDIUM" ELSE "HIGH" : site \in import_paths[m]}

\* The top-level module a statement imports, and the text it is recorded as
ImportedTopLevel(st) == TopLevel(BeforeAs(st.module))

StatementText(st) ==
    IF st.kind = "import" THEN ImportText(BeforeAs(st.module))
    ELSE FromText(st.module, st.names)

\* The usage sites of m the statements of the analysed files that import m
\* stand for
SitesImporting(m) ==
    UNION {{UsageSite(files[i].path, StatementText(files[i].stmts[j])) :
              j \in {j \in 1..Len(files[i].stmts) :
                       ImportedTopLevel(files[i].stmts[j]) = m}} :
           i \in 1..file_i}

\* C26: a statement is recorded once, under the top-level name of the module
\* it imports from: `from X import Y` under X and never as an import of Y,
\* `import A.B as C` under A only; so the usage sites (and with them the
\* severity) of a module m come only from statements whose imported
\* top-level module is m.
C26_RecordedUnderImportedModule ==
    /\ \A m \in DOMAIN import_paths : import_paths[m] = SitesImporting(m)
    /\ \A m \in DOMAIN severities : SitesImporting(m) # {}

\* `import u.s as x` is recorded under u only, as `import u.s`
C26_AliasUnderTopLevel ==
    \A i \in 1..file_i :
        (files[i].stmts = <<ImportStmt(ModUSubAsX)>> /\ HasKey(conflicts, ModU)) =>
            /\ UsageSite(files[i].path, ImportText(ModUSub)) \in import_paths[ModU]
            /\ NameX \notin DOMAIN import_paths

(***************************************************************************)
(* Claims about the report of detect_collisions.                           *)
(***************************************************************************)
\* The lists that hold the elements of xs in another order
PermutationsOf(xs) ==
    {[i \in 1..Len(xs) |-> xs[p[i]]] : p \in Orderings(1..Len(xs))}

\* The inventories with the packages of inv, and the records of each package,
\* in another order
RECURSIVE RecordPermutations(_)
RecordPermutations(q) ==
    IF q = <<>> THEN {<<>>}
    ELSE {<<[name |-> Head(q).name, modules |-> ms]>> \o rest :
             ms \in PermutationsOf(Head(q).modules),
             rest \in RecordPermutations(Tail(q))}

InventoryPermutations(inv) ==
    UNION {RecordPermutations(q) : q \in PermutationsOf(inv)}

CountIn(x, xs) == Cardinality({i \in 1..Len(xs) : xs[i] = x})

\* Two reports with the same names and, per name, the same collection of
\* records
SameContent(c1, c2) ==
    /\ Range(Keys(c1)) = Range(Keys(c2))
    /\ Len(Keys(c1)) = Len(Keys(c2))
    /\ \A m \in Range(Keys(c1)) :
          /\ Len(Get(c1, m)) = Len(Get(c2, m))
          /\ \A r \in Range(Get(c1, m)) : CountIn(r, Get(c1, m)) = CountIn(r, Get(c2, m))

\* C24: the report of detect_collisions has the same content (the set of
\* conflicting names and the collection of records of each) for every order
\* of the packages and of the records in the inventory; only the order of
\* the keys and of the records may differ.
C24_OrderIndependent ==
    scan_pc = "detected" =>
        \A inv2 \in InventoryPermutations(inventory) :
            SameContent(DetectCollisions(inv2), conflicts)

\* a report with a conflict that comes out in another order for a permuted
\* inventory
C24_Witness ==
    /\ scan_pc = "detected"
    /\ conflicts # <<>>
    /\ \E inv2 \in InventoryPermutations(inventory) : DetectCollisions(inv2) # conflicts

(***************************************************************************)
(* scan_project then suggest_fixes, on inventories of up to                *)
(* MaxReportRecords records and projects of at most one file.              *)
(***************************************************************************)
MaxReportRecords == 3

ReportInit ==
    /\ GraphIdle
    /\ inventory \in Inventories(MaxReportRecords)
    /\ files \in {p \in Projects : Len(p) <= 1}
    /\ file_i = 0
    /\ conflicts = <<>>
    /\ severities = <<>>
    /\ import_paths = <<>>
    /\ observed = <<>>
    /\ scan_pc = "start"
    /\ plans = <<>>
    /\ ExecIdle

ReportNext ==
    \/ detect_collisions
    \/ analyze_file
    \/ scan_return
    \/ suggest_fixes

SpecReport == ReportInit /\ [][ReportNext]_vars

\* The inventory's records named m: package by package in the order of the
\* dict, and within a package in the order of its list
RECURSIVE RecordsNamed(_, _)
RecordsNamed(inv, m) ==
    IF inv = <<>> THEN <<>>
    ELSE LET Is(r) == r.name = m
         IN SelectSeq(Head(inv).modules, Is) \o RecordsNamed(Tail(inv), m)

\* C25: the list the report holds for a conflicting module has every record
\* of that name in the inventory, several records of one owner included, in
\* aggregation order (packages in iteration order, records in list order);
\* the detailed report scan_project returns has the keys and lists of the
\* report of detect_collisions, in the same order.
C25_AllRecordsInOrder ==
    /\ scan_pc \in {"detected", "scanned"} =>
          \A i \in 1..Len(conflicts) :
              conflicts[i].modules = RecordsNamed(inventory, conflicts[i].name)
    /\ scan_pc = "scanned" => conflicts = DetectCollisions(inventory)

\* a detailed report whose list for a module has two records of one package
\* after the record of another package
C25_Witness ==
    /\ scan_pc = "scanned"
    /\ file_i = 1
    /\ \E i \in 1..Len(conflicts) :
          LET ms == conflicts[i].modules
          IN /\ Len(ms) = 3
             /\ ms[1].package.name # ms[2].package.name
             /\ ms[2].package.name = ms[3].package.name

(***************************************************************************)
(* suggest_fixes on DetailedConflictReports with two entries, u and v in   *)
(* either order, each with up to MaxPairRecords records.                   *)
(***************************************************************************)
MaxPairRecords == 2

PairSeverities == {"HIGH", "INFO"}

PairSites == {UsageSite(PathA, ImportText(ModU)), UsageSite(PathC, ImportText(ModU))}

PairEntry(m, l) == [name |-> m, modules |-> [j \in 1..Len(l) |-> ModuleInfo(m, j, l[j])]]

PairInit ==
    /\ GraphIdle
    /\ inventory = <<>>
    /\ files = <<>>
    /\ file_i = 0
    /\ \E q \in Orderings(ModNames) :
       \E l1, l2 \in SeqUpTo(PkgNames, MaxPairRecords) :
          conflicts = <<PairEntry(q[1], l1), PairEntry(q[2], l2)>>
    /\ severities \in UNION {[D -> PairSeverities] : D \in SUBSET ModNames}
    /\ import_paths \in {<<>>} \cup {ModU :> S : S \in (SUBSET PairSites) \ {{}}}
    /\ observed = <<>>
    /\ scan_pc = "scanned"
    /\ plans = <<>>
    /\ ExecIdle

PairNext == suggest_fixes

SpecPair == PairInit /\ [][PairNext]_vars

\* The position of module m among the keys of the report
KeyIndex(m) == CHOOSE i \in 1..Len(conflicts) : conflicts[i].name = m

\* [xs[i] : i in S], in the order of the indexes
RECURSIVE Pick(_, _)
Pick(xs, S) ==
    IF xs = <<>> THEN <<>>
    ELSE Pick(SubSeq(xs, 1, Len(xs) - 1), S)
            \o (IF Len(xs) \in S THEN <<xs[Len(xs)]>> ELSE <<>>)

\* xs can be obtained from ys by leaving elements out
RECURSIVE IsSubsequence(_, _)
IsSubsequence(xs, ys) ==
    IF xs = <<>> THEN TRUE
    ELSE IF ys = <<>> THEN FALSE
    ELSE IF Head(xs) = Head(ys) THEN IsSubsequence(Tail(xs), Tail(ys))
    ELSE IsSubsequence(xs, Tail(ys))

\* The owners of the actions of plan for module m, in plan order
ActionOwners(plan, m) ==
    LET acts == Pick(plan, ActionsOf(plan, m))
    IN [i \in 1..Len(acts) |-> acts[i].package_name]

RecordOwners(e) == [i \in 1..Len(e.modules) |-> e.modules[i].package.name]

\* C27: in every plan the actions are grouped by module in the order of the
\* report's conflict map (every action of an earlier key precedes every
\* action of a later key), and the actions of one module follow the order of
\* its records, each call of add_action having put its action at the end.
C27_PlanOrder ==
    \A k \in 1..Len(plans) :
        /\ \A i, j \in 1..Len(plans[k]) :
              i < j => KeyIndex(plans[k][i].module_name) <= KeyIndex(plans[k][j].module_name)
        /\ \A n \in 1..Len(conflicts) :
              IsSubsequence(ActionOwners(plans[k], conflicts[n].name),
                            RecordOwners(conflicts[n]))

\* a plan with actions for both modules, two of them for the first key, made
\* from records of different owners
C27_Witness ==
    /\ Len(plans) >= 1
    /\ Len(ActionOwners(plans[1], conflicts[1].name)) = 2
    /\ ActionOwners(plans[1], conflicts[1].name)[1] # ActionOwners(plans[1], conflicts[1].name)[2]
    /\ Len(ActionOwners(plans[1], conflicts[2].name)) >= 1

\* every action of every plan names a key of the report and the owner of one
\* of the key's records, and the actions of one module have one fix type
C30_ActionsOfTheReport ==
    \A k \in 1..Len(plans) :
        /\ \A i \in 1..Len(plans[k]) :
              \E n \in 1..Len(conflicts) :
                 /\ conflicts[n].name = plans[k][i].module_name
                 /\ plans[k][i].package_name \in PlanOwners(conflicts[n])
        /\ \A i, j \in 1..Len(plans[k]) :
              plans[k][i].module_name = plans[k][j].module_name
                 => plans[k][i].fix_type = plans[k][j].fix_type

\* C30: in every plan suggest_fixes returns, each action's module_name is a
\* key of the report and its package_name the owner of one of that key's
\* records, and all actions of one module have the same fix type; a call of
\* suggest_fixes leaves the report's conflicts, severities and usage sites
\* as they were.
C30_PlanWithinReport ==
    /\ []C30_ActionsOfTheReport
    /\ [][suggest' # suggest \/ plans' # plans
             => UNCHANGED <<conflicts, severities, import_paths>>]_vars

\* a plan with two actions for one module and actions of another fix type
\* for the other module
C30_Witness ==
    /\ Len(plans) >= 1
    /\ \E i, j \in 1..Len(plans[1]) :
          /\ i # j
          /\ plans[1][i].module_name = plans[1][j].module_name
          /\ plans[1][i].package_name # plans[1][j].package_name
    /\ \E i, j \in 1..Len(plans[1]) :
          /\ plans[1][i].module_name # plans[1][j].module_name
          /\ plans[1][i].fix_type # plans[1][j].fix_type

\* every key of the report of the detector has at least two records, of at
\* least two owners, so that the count of conflicts is the number of keys
C28_TwoRecordsTwoOwners ==
    (scan_pc \in {"detected", "scanned"} /\ conflicts = DetectCollisions(inventory)) =>
        /\ \A n \in 1..Len(conflicts) :
              /\ Len(conflicts[n].modules) >= 2
              /\ Cardinality(PlanOwners(conflicts[n])) >= 2
        /\ get_conflict_count(conflicts) = Len(conflicts)
        /\ has_conflicts(conflicts) <=> Len(conflicts) >= 1

\* C28: in every report detect_collisions (and scan_project) returns each key
\* has at least two records of at least two distinct owners; so
\* get_conflict_count() is the number of keys, has_conflicts() is true
\* exactly when there is a key, and suggest_fixes on the report skips no
\* entry: it returns a plan with at least one action for every key.
C28_ReportShape ==
    /\ C28_TwoRecordsTwoOwners
    /\ (conflicts = DetectCollisions(inventory) /\ suggest.pc # "idle") =>
          /\ suggest.pc = "returned"
          /\ \A k \in 1..Len(plans) : \A n \in 1..Len(conflicts) :
                ActionsOf(plans[k], conflicts[n].name) # {}

\* C29: every plan built from a report scan_project returns holds only
\* RENAME_SHIM and VERSION_CONSTRAINT actions: the scan stores no severity
\* but HIGH and MEDIUM, so no plan of the scan pipeline has a MANUAL or
\* ISOLATION action, and severities and usage sites are stored only for
\* keys of the conflict map.
C29_ScanPlansShimOrConstraint ==
    /\ \A k \in 1..Len(plans) : \A i \in 1..Len(plans[k]) :
          plans[k][i].fix_type \in {"RENAME_SHIM", "VERSION_CONSTRAINT"}
    /\ \A m \in DOMAIN severities : severities[m] \in {"HIGH", "MEDIUM"}
    /\ DOMAIN severities \subseteq Range(Keys(conflicts))
    /\ DOMAIN import_paths \subseteq Range(Keys(conflicts))

\* a plan for module u, rated MEDIUM, of a project with a file that imports
\* from module v, which is no key of the report
C29_Witness ==
    /\ Len(plans) >= 1
    /\ plans[1] # <<>>
    /\ ModU \in DOMAIN severities
    /\ severities[ModU] = "MEDIUM"
    /\ ~HasKey(conflicts, ModV)
    /\ \E i \in 1..Len(files) : files[i].stmts = <<FromStmt(ModV, ModU)>>


====
